---- MODULE Spec2Model ----
(***************************************************************************)
(* zurg-repair: the repair orchestration (repairFile,                      *)
(* repairFilesConcurrently), the instance run (runRepairForInstance) and   *)
(* the scheduler (ZurgScheduler, main) as state machines.  Every await of  *)
(* the source is a suspension point: the code between two awaits is one    *)
(* atomic action.  The managed service is an opaque actor: each call to it *)
(* returns any of the answers it can give.                                 *)
(***************************************************************************)
EXTENDS Integers, Sequences, FiniteSets, TLC

\* ------------------------------------------------------------------ bounds

\* Longest list of repair targets handed to repairFilesConcurrently directly.
MaxTargets == 3
\* Largest concurrencyLimit tried (config.ts allows 1..100).
MaxLimit == 2
\* Largest retryAttempts / maxRetries tried (config.ts allows 1..10).
MaxRetries == 3

\* The configured instances.
Instances == {"alpha", "beta"}

\* The bundles a managed service lists and the files a detail page shows,
\* in page order.
Hashes == <<"hA", "hB">>
FileIds == <<"1", "2">>

\* ---------------------------------------------------------------- strings

\* A status string is the sequence of its characters.
S_available == <<"a", "v", "a", "i", "l", "a", "b", "l", "e">>
S_Available == <<"A", "v", "a", "i", "l", "a", "b", "l", "e">>
S_Broken == <<"B", "r", "o", "k", "e", "n">>

\* The statuses the managed service's badge shows in the model.
StatusValues == {S_available, S_Available, S_Broken}

\* String.prototype.toLowerCase, character by character.
toLowerCase(s) ==
    LET lower(c) == CASE c = "A" -> "a"
                      [] c = "B" -> "b"
                      [] OTHER -> c
    IN [k \in 1..Len(s) |-> lower(s[k])]

\* Variant: the status compared as it is, without toLowerCase.
isAvailableCaseSensitive(status) == status = S_available

\* updatedFile.status.toLowerCase() === "available"
isAvailable(status) == toLowerCase(status) = S_available

\* The statuses of the model that read "available" whatever the case.
AvailableStatuses == {S_available, S_Available}

\* ------------------------------------------------------------------ state

VARIABLES
    config,       \* config.instances: per instance its loaded settings
    service,      \* per instance, the bundles and file ids its service tracks
    run,          \* per instance, the locals of the run in progress
    jobs,         \* ZurgScheduler.jobs: the names that have a map entry
    live,         \* per instance, cron tasks created and not yet destroyed
    runningJobs,  \* ZurgScheduler.runningJobs
    active,       \* per instance, invocations of runRepairForInstance in progress
    lastLog,      \* the last line the scheduler logged in the last step, if any
    lastCall,     \* the runInstanceNow call that settled in the last step, if any
    handlers,     \* listeners of SIGINT/SIGTERM, in registration order
    process,      \* the process: running or exited, with its exit code
    drain,        \* the shutdown's waitForJobs loop: its position and `waited`
    oneShot       \* runOneTimeExecution: RUN_INSTANCE, its position, its loop

vars == <<config, service, run, jobs, live, runningJobs, active, lastLog,
          lastCall, handlers, process, drain, oneShot>>

\* What no step of a run and no operation of the scheduler changes.
envVars == <<config, service, oneShot>>
schedVars == <<jobs, live, runningJobs, active, lastLog, lastCall, handlers,
               process, drain>>

Min(a, b) == IF a < b THEN a ELSE b

\* ------------------------------------------------- the managed service's answers

\* The first n entries of a page, for every n.
Prefixes(q) == {SubSeq(q, 1, n) : n \in 0..Len(q)}

\* parseTorrentFiles: the file rows of a detail page, each with its id and
\* status (name and size are carried along unchanged and left out).
FileLists(ids) ==
    UNION {{[k \in 1..Len(q) |-> [id |-> q[k], status |-> st[k]]] :
               st \in [1..Len(q) -> StatusValues]} : q \in Prefixes(ids)}

\* getDetailedTorrent: it throws (transport error, non-ok response) or
\* returns the bundle with its parsed files.
DetailResponses(ids) ==
    {[ok |-> FALSE, files |-> <<>>]} \cup
    {[ok |-> TRUE, files |-> f] : f \in FileLists(ids)}

\* deleteFile / restoreFile: "ok", or the message of the error thrown.
DeleteOutcomes == {"ok", "Failed to delete file"}
RestoreOutcomes == {"ok", "Failed to restore file"}

\* ------------------------------------------------------------- repairFile

NoResult == [status |-> "none"]

RepairResult(target, status, message) ==
    [torrentHash |-> target.hash, fileId |-> target.id,
     status |-> status, message |-> message]

\* One repairFile call: where it is suspended, the loop variable `attempt`
\* and the value its promise settled with; and what it has done so far: the
\* calls it has issued, how its delete and its restore ended, and the first
\* attempt whose detail showed the file as available (0: none yet).
NewTask ==
    [pc |-> "new", attempt |-> 0, value |-> NoResult,
     nDelete |-> 0, nRestore |-> 0, nDetail |-> 0,
     deleted |-> "none", restored |-> "none", firstAvailable |-> 0]

Fulfil(t, value) == [t EXCEPT !.pc = "fulfilled", !.value = value]

\* Variant: no outer catch, the error rejects the promise of repairFile.
catchErrorRethrows(t, target, errorMessage) == [t EXCEPT !.pc = "rejected"]

\* The catch of repairFile: status error with the thrown message.
catchError(t, target, errorMessage) ==
    Fulfil(t, RepairResult(target, "error",
                           [text |-> "Repair process failed: ",
                            cause |-> errorMessage]))

\* repairFile up to its first await: the delete request is issued.
repairFile(t) == [t EXCEPT !.pc = "deleteFile", !.nDelete = @ + 1]

\* Variant: a failed delete does not abort the repair.
afterDeleteNoAbort(t, target, out) ==
    [t EXCEPT !.pc = "restoreFile", !.nRestore = @ + 1, !.deleted = out]

\* Variant: the restore is issued without await, the wait starts at once.
afterDeleteRestoreNotAwaited(t, target, out) ==
    IF out = "ok"
    THEN [t EXCEPT !.pc = "delay", !.nRestore = @ + 1, !.deleted = out]
    ELSE catchError([t EXCEPT !.deleted = out], target, out)

\* deleteFile settled: on success the restore request is issued.
afterDelete(t, target, out) ==
    IF out = "ok"
    THEN [t EXCEPT !.pc = "restoreFile", !.nRestore = @ + 1, !.deleted = out]
    ELSE catchError([t EXCEPT !.deleted = out], target, out)

\* Variant: a successful restore is followed by the first fetch at once.
afterRestoreNoDelay(t, target, out) ==
    IF out = "ok"
    THEN [t EXCEPT !.pc = "getDetailedTorrent", !.attempt = 1,
                   !.nDetail = @ + 1, !.restored = out]
    ELSE catchError([t EXCEPT !.restored = out], target, out)

\* restoreFile settled: on success the first wait of retryDelay starts.
afterRestore(t, target, out) ==
    IF out = "ok"
    THEN [t EXCEPT !.pc = "delay", !.restored = out]
    ELSE catchError([t EXCEPT !.restored = out], target, out)

\* Variant: the loop runs one attempt too many (attempt <= maxRetries + 1).
loopTestOneMore(t, target, a, maxRetries) ==
    IF a <= maxRetries + 1
    THEN [t EXCEPT !.pc = "getDetailedTorrent", !.attempt = a, !.nDetail = @ + 1]
    ELSE Fulfil([t EXCEPT !.attempt = a],
                RepairResult(target, "failed",
                    [text |-> "File repair failed - still not available after N verification attempts",
                     attempts |-> maxRetries]))

\* The for loop's test with `attempt` = a: the next detail fetch is issued,
\* or the loop is exhausted and the result is failed.
loopTest(t, target, a, maxRetries) ==
    IF a <= maxRetries
    THEN [t EXCEPT !.pc = "getDetailedTorrent", !.attempt = a, !.nDetail = @ + 1]
    ELSE Fulfil([t EXCEPT !.attempt = a],
                RepairResult(target, "failed",
                    [text |-> "File repair failed - still not available after N verification attempts",
                     attempts |-> maxRetries]))

\* The end of the loop body: wait before the next attempt, except on the last.
endOfBody(t, target, maxRetries) ==
    IF t.attempt < maxRetries
    THEN [t EXCEPT !.pc = "retryDelay"]
    ELSE loopTest(t, target, t.attempt + 1, maxRetries)

\* updatedTorrent.files.find((f) => f.id === fileId): the index of the
\* first file with that id, 0 when there is none.
find(files, fileId) ==
    IF \E k \in DOMAIN files : files[k].id = fileId
    THEN CHOOSE k \in DOMAIN files :
            /\ files[k].id = fileId
            /\ \A j \in 1..(k - 1) : files[j].id # fileId
    ELSE 0

\* Variant: an available file does not end the loop (the return is missing).
verifyKeepsPolling(t, target, resp, maxRetries) ==
    IF ~resp.ok
    THEN endOfBody(t, target, maxRetries)
    ELSE IF find(resp.files, target.id) = 0
         THEN loopTest(t, target, t.attempt + 1, maxRetries)
         ELSE endOfBody(t, target, maxRetries)

\* Variant: no inner try/catch, a failed detail fetch reaches the outer catch.
verifyErrorEscapes(t, target, resp, maxRetries) ==
    IF ~resp.ok
    THEN catchError(t, target, "Failed to fetch torrent details")
    ELSE LET k == find(resp.files, target.id) IN
         IF k = 0
         THEN loopTest(t, target, t.attempt + 1, maxRetries)
         ELSE IF isAvailable(resp.files[k].status)
              THEN Fulfil(t, RepairResult(target, "repaired",
                      [text |-> "File repaired successfully after N verification attempt(s)",
                       attempts |-> t.attempt]))
              ELSE endOfBody(t, target, maxRetries)

\* One verification attempt, given the answer of getDetailedTorrent.
verify(t, target, resp, maxRetries) ==
    IF ~resp.ok
    THEN endOfBody(t, target, maxRetries)                  \* catch (verifyError)
    ELSE LET k == find(resp.files, target.id) IN
         IF k = 0
         THEN loopTest(t, target, t.attempt + 1, maxRetries)   \* continue
         ELSE IF isAvailable(resp.files[k].status)
              THEN Fulfil(t, RepairResult(target, "repaired",
                      [text |-> "File repaired successfully after N verification attempt(s)",
                       attempts |-> t.attempt]))
              ELSE endOfBody(t, target, maxRetries)

\* What the service's answer to a verification fetch showed of the target:
\* the first attempt at which it showed the file as available is kept.
sees(t, target, resp) ==
    IF /\ t.firstAvailable = 0
       /\ resp.ok
       /\ \E k \in DOMAIN resp.files :
             /\ resp.files[k].id = target.id
             /\ resp.files[k].status \in AvailableStatuses
    THEN [t EXCEPT !.firstAvailable = t.attempt]
    ELSE t

\* A wait of retryDelay has elapsed: after the restore the loop is entered,
\* inside the loop the next attempt starts.
afterDelay(t, target, maxRetries) ==
    IF t.pc = "delay"
    THEN loopTest(t, target, 1, maxRetries)
    ELSE loopTest(t, target, t.attempt + 1, maxRetries)

\* ------------------------------------------------ repairFilesConcurrently

\* The locals of one run.  pc is the await the run is suspended at, ctx the
\* caller awaiting it, listed how getTorrentList ended, and fetched what the
\* discovery's detail fetches returned.
IdleRun ==
    [pc |-> "idle", ctx |-> "none",
     listed |-> "none", allTorrents |-> <<>>, chunkIndex |-> 0, fetched |-> <<>>,
     allDetailedTorrents |-> <<>>,
     repairs |-> <<>>, concurrencyLimit |-> 1, maxRetries |-> 1,
     offset |-> 0, task |-> <<>>, results |-> <<>>,
     outcome |-> "none"]

\* repairs.slice(i, i + concurrencyLimit), as positions of `repairs`.
chunk(r) == (r.offset + 1)..Min(r.offset + r.concurrencyLimit, Len(r.repairs))

\* chunk.map(repairFile): every repair of the chunk is started.
launchChunk(r) ==
    [r EXCEPT !.task = [p \in DOMAIN @ |->
                           IF p \in chunk(r) THEN repairFile(@[p]) ELSE @[p]]]

settled(t) == t.pc \in {"fulfilled", "rejected"}

\* Variant: the chunk is over as soon as one of its repairs has settled.
anySettled(r) == \E p \in chunk(r) : settled(r.task[p])

\* Promise.allSettled(chunkPromises) has resolved.
allSettled(r) == \A p \in chunk(r) : settled(r.task[p])

\* Variant: the chunk's results are pushed last to first.
chunkResultsReversed(r) ==
    [k \in 1..Cardinality(chunk(r)) |->
        r.task[r.offset + Cardinality(chunk(r)) + 1 - k].value]

\* chunkResults.forEach: one result per member of the chunk, in chunk order.
chunkResults(r) ==
    [k \in 1..Cardinality(chunk(r)) |->
        LET p == r.offset + k IN
        IF r.task[p].pc = "fulfilled"
        THEN r.task[p].value
        ELSE RepairResult(r.repairs[p], "error",
                          [text |-> "Repair promise rejected: ",
                           cause |-> "reason"])]

\* results.reduce(...): the counts of results by status.
Count(results, status) ==
    Cardinality({k \in DOMAIN results : results[k].status = status})

summary(results) ==
    [repaired |-> Count(results, "repaired"),
     failed |-> Count(results, "failed"),
     error |-> Count(results, "error")]

\* runRepairForInstance resolves.
return(r) == [r EXCEPT !.pc = "done", !.outcome = "returned"]

\* runRepairForInstance rejects: the catch logs and re-throws.
throw(r) == [r EXCEPT !.pc = "done", !.outcome = "threw"]

\* Variant: only failed results make the run throw, error results do not.
reportRepairsFailedOnly(r) ==
    IF summary(r.results).failed > 0 THEN throw(r) ELSE return(r)

\* Steps 6 to 8 of runRepairForInstance: throw if any repair did not succeed.
reportRepairs(r) ==
    IF summary(r.results).failed > 0 \/ summary(r.results).error > 0
    THEN throw(r)
    ELSE return(r)

\* repairFilesConcurrently returns `results` to its caller: to the direct
\* caller, or to runRepairForInstance, which goes on with its report.
returnResults(r) ==
    IF r.ctx = "repairFilesConcurrently"
    THEN [r EXCEPT !.pc = "done", !.outcome = "results"]
    ELSE reportRepairs(r)

\* The for loop's test of repairFilesConcurrently: the next chunk is started,
\* or the function returns `results`.
nextChunk(r) ==
    IF r.offset < Len(r.repairs)
    THEN launchChunk(r)
    ELSE returnResults(r)

\* The call, up to its first await.
repairFilesConcurrently(r, repairs, concurrencyLimit, maxRetries) ==
    nextChunk([r EXCEPT !.pc = "repairFilesConcurrently",
                        !.repairs = repairs,
                        !.concurrencyLimit = concurrencyLimit,
                        !.maxRetries = maxRetries,
                        !.offset = 0,
                        !.task = [p \in 1..Len(repairs) |-> NewTask],
                        !.results = <<>>])

\* A continuation that ends the loop when a result of the chunk is an error.
afterChunkAbortsOnError(r) ==
    IF \E p \in chunk(r) : r.task[p].value.status = "error"
    THEN returnResults([r EXCEPT !.results = @ \o chunkResults(r)])
    ELSE nextChunk([r EXCEPT !.results = @ \o chunkResults(r),
                             !.offset = @ + r.concurrencyLimit])

\* The continuation of `await Promise.allSettled`: the chunk's results are
\* pushed and the loop goes on.
afterChunk(r) ==
    nextChunk([r EXCEPT !.results = @ \o chunkResults(r),
                        !.offset = @ + r.concurrencyLimit])

\* --------------------------------------- getDetailedTorrentsConcurrently

\* getTorrentList: it throws, or returns the parsed bundle list.
ListResponses(hashes) ==
    {[ok |-> FALSE, list |-> <<>>]} \cup
    {[ok |-> TRUE, list |-> q] : q \in Prefixes(hashes)}

\* chunks[i] of chunkArray(torrents, concurrencyLimit), as positions.
batch(r) ==
    (r.chunkIndex * r.concurrencyLimit + 1)..
        Min((r.chunkIndex + 1) * r.concurrencyLimit, Len(r.allTorrents))

\* processBatch up to its await: one getDetailedTorrent per bundle of the batch.
processBatch(r) ==
    [r EXCEPT !.fetched = [p \in DOMAIN @ |->
                  IF p \in batch(r) THEN [@[p] EXCEPT !.st = "pending"] ELSE @[p]]]

batchSettled(r) == \A p \in batch(r) : r.fetched[p].st \in {"fulfilled", "rejected"}

\* A forEach that leaves out the bundles whose fetch failed.
RECURSIVE batchResultsDropRejected(_, _)
batchResultsDropRejected(r, p) ==
    IF p \notin batch(r)
    THEN <<>>
    ELSE LET f == r.fetched[p]
             kept ==
                 IF f.st = "fulfilled" /\
                    ~(\A k \in DOMAIN f.files : isAvailable(f.files[k].status))
                 THEN <<[hash |-> r.allTorrents[p], files |-> f.files]>>
                 ELSE <<>>
         IN kept \o batchResultsDropRejected(r, p + 1)

\* results.forEach of processBatch for the batch members from position p on:
\* a fetched bundle is kept unless all its files are available, a bundle
\* whose fetch failed is kept with no files.
RECURSIVE batchResults(_, _)
batchResults(r, p) ==
    IF p \notin batch(r)
    THEN <<>>
    ELSE LET f == r.fetched[p]
             allFilesAvailable ==
                 \A k \in DOMAIN f.files : isAvailable(f.files[k].status)
             kept ==
                 IF f.st = "fulfilled"
                 THEN IF ~allFilesAvailable
                      THEN <<[hash |-> r.allTorrents[p], files |-> f.files]>>
                      ELSE <<>>
                 ELSE <<[hash |-> r.allTorrents[p], files |-> <<>>]>>
         IN kept \o batchResults(r, p + 1)

\* A map without the filter: every file of a kept bundle becomes a target.
RECURSIVE brokenFilesInTorrentAll(_, _)
brokenFilesInTorrentAll(torrent, k) ==
    IF k > Len(torrent.files)
    THEN <<>>
    ELSE <<[hash |-> torrent.hash, id |-> torrent.files[k].id,
            status |-> torrent.files[k].status]>>
             \o brokenFilesInTorrentAll(torrent, k + 1)

\* torrent.files.filter(status not available), as repair targets.
RECURSIVE brokenFilesInTorrent(_, _)
brokenFilesInTorrent(torrent, k) ==
    IF k > Len(torrent.files)
    THEN <<>>
    ELSE (IF ~isAvailable(torrent.files[k].status)
          THEN <<[hash |-> torrent.hash, id |-> torrent.files[k].id,
                  status |-> torrent.files[k].status]>>
          ELSE <<>>) \o brokenFilesInTorrent(torrent, k + 1)

\* Step 3 of runRepairForInstance: the broken files of all detailed bundles.
RECURSIVE brokenFiles(_, _)
brokenFiles(detailedTorrents, n) ==
    IF n > Len(detailedTorrents)
    THEN <<>>
    ELSE brokenFilesInTorrent(detailedTorrents[n], 1)
             \o brokenFiles(detailedTorrents, n + 1)

\* Variant: a bundle that came back without files makes the run throw.
repairBrokenNeedsFiles(r, cfg) ==
    LET broken == brokenFiles(r.allDetailedTorrents, 1) IN
    IF \E n \in DOMAIN r.allDetailedTorrents :
          Len(r.allDetailedTorrents[n].files) = 0
    THEN throw(r)
    ELSE IF Len(broken) = 0
         THEN return(r)
         ELSE repairFilesConcurrently(r, broken, cfg.concurrencyLimit,
                                      cfg.retryAttempts)

\* Steps 3 to 5 of runRepairForInstance: return when nothing is broken,
\* else repair the broken files.
repairBroken(r, cfg) ==
    LET broken == brokenFiles(r.allDetailedTorrents, 1) IN
    IF Len(broken) = 0
    THEN return(r)
    ELSE repairFilesConcurrently(r, broken, cfg.concurrencyLimit, cfg.retryAttempts)

\* The for loop of getDetailedTorrentsConcurrently: the next batch is
\* started, or the detailed bundles are returned to runRepairForInstance.
nextBatch(r, cfg) ==
    IF r.chunkIndex * r.concurrencyLimit < Len(r.allTorrents)
    THEN processBatch(r)
    ELSE repairBroken(r, cfg)

\* A continuation that throws when a fetch of the batch was rejected.
afterBatchRethrows(r, cfg) ==
    IF \E p \in batch(r) : r.fetched[p].st = "rejected"
    THEN throw(r)
    ELSE nextBatch([r EXCEPT !.allDetailedTorrents = @ \o batchResults(r, r.chunkIndex * r.concurrencyLimit + 1),
                             !.chunkIndex = @ + 1], cfg)

\* The continuation of `await processBatch`: the batch's results are pushed.
afterBatch(r, cfg) ==
    nextBatch([r EXCEPT !.allDetailedTorrents = @ \o batchResults(r, r.chunkIndex * r.concurrencyLimit + 1),
                        !.chunkIndex = @ + 1], cfg)

\* ---------------------------------------------------- runRepairForInstance

\* The call, up to its first await: the bundle list is requested.
runRepairForInstance(ctx) ==
    [IdleRun EXCEPT !.pc = "getTorrentList", !.ctx = ctx]

\* A run that takes a failed list fetch for an empty list.
afterListFailureAsEmpty(r, cfg, resp) ==
    IF ~resp.ok
    THEN return([r EXCEPT !.listed = "failed"])
    ELSE IF Len(resp.list) = 0
         THEN return([r EXCEPT !.listed = "ok", !.allTorrents = resp.list])
         ELSE nextBatch([r EXCEPT !.pc = "getDetailedTorrentsConcurrently",
                                  !.listed = "ok",
                                  !.allTorrents = resp.list,
                                  !.concurrencyLimit = cfg.concurrencyLimit,
                                  !.chunkIndex = 0,
                                  !.fetched = [p \in 1..Len(resp.list) |->
                                                  [st |-> "new", files |-> <<>>]],
                                  !.allDetailedTorrents = <<>>], cfg)

\* getTorrentList settled: a failure is re-thrown, an empty list ends the
\* run, otherwise the discovery starts.
afterList(r, cfg, resp) ==
    IF ~resp.ok
    THEN throw([r EXCEPT !.listed = "failed"])
    ELSE IF Len(resp.list) = 0
         THEN return([r EXCEPT !.listed = "ok", !.allTorrents = resp.list])
         ELSE nextBatch([r EXCEPT !.pc = "getDetailedTorrentsConcurrently",
                                  !.listed = "ok",
                                  !.allTorrents = resp.list,
                                  !.concurrencyLimit = cfg.concurrencyLimit,
                                  !.chunkIndex = 0,
                                  !.fetched = [p \in 1..Len(resp.list) |->
                                                  [st |-> "new", files |-> <<>>]],
                                  !.allDetailedTorrents = <<>>], cfg)

\* ------------------------------------------------------------ ZurgScheduler

\* setTimeout(resolve, checkInterval) and the drain window of waitForJobs.
maxWait == 30000
checkInterval == 1000

\* Most cron tasks one instance is given (startAll calls without a stopAll).
MaxStartAll == 2

Names == Instances \cup {"ghost"}

Running == [state |-> "running", code |-> 0]
Exited(code) == [state |-> "exited", code |-> code]

NoDrain == [pc |-> "none", waited |-> 0]

\* runOneTimeExecution has not been called (scheduler mode).
NoOneShot ==
    [RUN_INSTANCE |-> "", pc |-> "none", current |-> "none", todo |-> <<>>]

Log(line, name) == [line |-> line, name |-> name]
NoLog == Log("none", "none")

Settled(name, result) == [name |-> name, result |-> result]
NoCall == Settled("none", "none")

\* A has-test that never finds the key.
alreadyRunningNever(jobKey, running) == FALSE

\* A has-test on the whole set: any running instance blocks every trigger.
alreadyRunningAny(jobKey, running) == running # {}

\* this.runningJobs.has(jobKey)
alreadyRunning(jobKey, running) == jobKey \in running

\* A handler without the catch: an error of the run rejects its promise.
handlerRethrows(outcome) == IF outcome = "threw" THEN "rejected" ELSE "resolved"

\* The try/catch of executeInstance: an error of the run is logged, and the
\* handler's promise resolves either way.
handlerSettles(outcome) == "resolved"

\* The process after a handler's promise settled: a rejection nobody handles
\* ends the process with code 1 (unhandledRejection).
afterHandler(p, h) == IF h = "rejected" THEN Exited(1) ELSE p

\* A finally block that leaves the running mark in place.
runningJobsKeep(jobKey, running) == running

\* A finally block that empties the set: this.runningJobs.clear()
runningJobsClear(jobKey, running) == {}

\* finally: this.runningJobs.delete(jobKey)
runningJobsDelete(jobKey, running) == running \ {jobKey}

\* A finally block that also drops the instance's entry of the job map.
ExecuteInstanceSettlesDropsJob(i, r) ==
    /\ run' = [run EXCEPT ![i] = IdleRun]
    /\ runningJobs' = runningJobsDelete(i, runningJobs)
    /\ jobs' = jobs \ {i}
    /\ active' = [active EXCEPT ![i] = @ - 1]
    /\ lastLog' = Log("completed", i)
    /\ lastCall' = NoCall
    /\ UNCHANGED <<live, handlers, process, drain>>

\* A run that executeInstance awaits has ended with r: the catch and the
\* finally of executeInstance, and the caller of runInstanceNow.
ExecuteInstanceSettles(i, r) ==
    /\ run' = [run EXCEPT ![i] = IdleRun]
    /\ runningJobs' = runningJobsDelete(i, runningJobs)
    /\ active' = [active EXCEPT ![i] = @ - 1]
    /\ lastLog' = IF r.outcome = "returned"
                  THEN Log("completed successfully", i)
                  ELSE IF handlerSettles(r.outcome) = "resolved"
                       THEN Log("failed", i)
                       ELSE NoLog
    /\ lastCall' = IF r.ctx = "runInstanceNow"
                   THEN Settled(i, handlerSettles(r.outcome))
                   ELSE NoCall
    /\ process' = IF r.ctx = "cron"
                  THEN afterHandler(process, handlerSettles(r.outcome))
                  ELSE process
    /\ UNCHANGED <<jobs, live, handlers, drain>>

\* The run of instance i has taken a step to r: when it has ended, its
\* caller goes on.
Deliver(i, r) ==
    IF r.pc = "done" /\ r.ctx \in {"cron", "runInstanceNow"}
    THEN ExecuteInstanceSettles(i, r)
    ELSE /\ run' = [run EXCEPT ![i] = r]
         /\ active' = IF r.pc = "done" /\ r.ctx = "runRepairForInstance"
                      THEN [active EXCEPT ![i] = @ - 1]
                      ELSE active
         /\ lastLog' = NoLog
         /\ lastCall' = NoCall
         /\ UNCHANGED <<jobs, live, runningJobs, handlers, process, drain>>

\* ------------------------------------------------------- steps of a run

\* getTorrentList settles.
ListSettles(i) ==
    /\ process.state = "running"
    /\ run[i].pc = "getTorrentList"
    /\ \E resp \in ListResponses(service[i].hashes) :
          Deliver(i, afterList(run[i], config[i], resp))
    /\ UNCHANGED envVars

\* One getDetailedTorrent of the discovery settles.
FetchSettles(i) ==
    /\ process.state = "running"
    /\ run[i].pc = "getDetailedTorrentsConcurrently"
    /\ \E p \in batch(run[i]) :
          /\ run[i].fetched[p].st = "pending"
          /\ \E resp \in DetailResponses(service[i].ids) :
                Deliver(i, [run[i] EXCEPT !.fetched[p] =
                              [st |-> IF resp.ok THEN "fulfilled" ELSE "rejected",
                               files |-> resp.files]])
    /\ UNCHANGED envVars

\* Promise.allSettled of processBatch resolves.
BatchSettles(i) ==
    /\ process.state = "running"
    /\ run[i].pc = "getDetailedTorrentsConcurrently"
    /\ batchSettled(run[i])
    /\ Deliver(i, afterBatch(run[i], config[i]))
    /\ UNCHANGED envVars

\* deleteFile of one repair settles.
DeleteSettles(i) ==
    /\ process.state = "running"
    /\ run[i].pc = "repairFilesConcurrently"
    /\ \E p \in chunk(run[i]) :
          /\ run[i].task[p].pc = "deleteFile"
          /\ \E out \in DeleteOutcomes :
                Deliver(i, [run[i] EXCEPT !.task[p] =
                              afterDelete(@, run[i].repairs[p], out)])
    /\ UNCHANGED envVars

\* restoreFile of one repair settles.
RestoreSettles(i) ==
    /\ process.state = "running"
    /\ run[i].pc = "repairFilesConcurrently"
    /\ \E p \in chunk(run[i]) :
          /\ run[i].task[p].pc = "restoreFile"
          /\ \E out \in RestoreOutcomes :
                Deliver(i, [run[i] EXCEPT !.task[p] =
                              afterRestore(@, run[i].repairs[p], out)])
    /\ UNCHANGED envVars

\* A setTimeout(resolve, retryDelay) of one repair fires.
DelayElapses(i) ==
    /\ process.state = "running"
    /\ run[i].pc = "repairFilesConcurrently"
    /\ \E p \in chunk(run[i]) :
          /\ run[i].task[p].pc \in {"delay", "retryDelay"}
          /\ Deliver(i, [run[i] EXCEPT !.task[p] =
                           afterDelay(@, run[i].repairs[p], run[i].maxRetries)])
    /\ UNCHANGED envVars

\* getDetailedTorrent of one verification attempt settles.
VerifySettles(i) ==
    /\ process.state = "running"
    /\ run[i].pc = "repairFilesConcurrently"
    /\ \E p \in chunk(run[i]) :
          /\ run[i].task[p].pc = "getDetailedTorrent"
          /\ \E resp \in DetailResponses(service[i].ids) :
                Deliver(i, [run[i] EXCEPT !.task[p] =
                              verify(sees(@, run[i].repairs[p], resp),
                                     run[i].repairs[p], resp, run[i].maxRetries)])
    /\ UNCHANGED envVars

\* Promise.allSettled(chunkPromises) resolves.
ChunkSettles(i) ==
    /\ process.state = "running"
    /\ run[i].pc = "repairFilesConcurrently"
    /\ allSettled(run[i])
    /\ Deliver(i, afterChunk(run[i]))
    /\ UNCHANGED envVars

RepairStep(i) ==
    \/ DeleteSettles(i)
    \/ RestoreSettles(i)
    \/ DelayElapses(i)
    \/ VerifySettles(i)
    \/ ChunkSettles(i)

\* ------------------------------------------- repairFilesConcurrently alone

\* The instance whose service the direct calls below are made against.
Direct == "alpha"

\* retryAttempts: z.number().int().min(1).max(10).default(3)
DefaultRetryAttempts == 3

\* The k-th target of the longest list tried: the files of hA, then those of
\* hB, and over again.
TargetAt(k) ==
    [hash |-> IF ((k - 1) \div 2) % 2 = 0 THEN "hA" ELSE "hB",
     id |-> IF (k - 1) % 2 = 0 THEN "1" ELSE "2",
     status |-> S_Broken]

\* The lists of repair targets tried: of every length up to MaxTargets, in
\* that order and in the opposite one.
TargetLists ==
    {[k \in 1..n |-> TargetAt(k)] : n \in 0..MaxTargets} \cup
    {[k \in 1..n |-> TargetAt(n + 1 - k)] : n \in 0..MaxTargets}

FullService == [hashes |-> Hashes, ids |-> FileIds]

\* An instance of config.instances: cronValid is what cron.validate says of
\* its cronSchedule.
SmallInstance ==
    [enabled |-> TRUE, cronValid |-> TRUE, concurrencyLimit |-> 1,
     retryAttempts |-> 1]

InitIdle ==
    /\ run = [i \in Instances |-> IdleRun]
    /\ jobs = {}
    /\ live = [i \in Instances |-> 0]
    /\ runningJobs = {}
    /\ active = [i \in Instances |-> 0]
    /\ lastLog = NoLog
    /\ lastCall = NoCall
    /\ oneShot = NoOneShot
    /\ process = Running
    /\ drain = NoDrain

InitRepair ==
    /\ InitIdle
    /\ config = [i \in Instances |-> SmallInstance]
    /\ service = [i \in Instances |-> FullService]
    /\ handlers = <<>>

\* A caller hands a list of targets to repairFilesConcurrently.
CallRepairFilesConcurrently ==
    /\ run[Direct] = IdleRun
    /\ \E repairs \in TargetLists, concurrencyLimit \in 1..MaxLimit,
          maxRetries \in 1..MaxRetries :
          Deliver(Direct,
                  repairFilesConcurrently(
                      [IdleRun EXCEPT !.ctx = "repairFilesConcurrently"],
                      repairs, concurrencyLimit, maxRetries))
    /\ UNCHANGED envVars

NextRepair ==
    \/ CallRepairFilesConcurrently
    \/ \E i \in Instances : RepairStep(i)

SpecRepair == InitRepair /\ [][NextRepair]_vars

\* Every service call returns or fails and every timer fires: a call of
\* repairFilesConcurrently that waits for one takes its next step.
SpecRepairFair ==
    /\ InitRepair
    /\ [][NextRepair]_vars
    /\ WF_vars(RepairStep(Direct))

\* A managed service whose detail pages show the first file of a bundle
\* only: a target with the second file's id is in no refreshed detail.
OneFileService == [hashes |-> Hashes, ids |-> <<"1">>]

InitVanished ==
    /\ InitIdle
    /\ config = [i \in Instances |-> SmallInstance]
    /\ service = [i \in Instances |-> OneFileService]
    /\ handlers = <<>>

\* repairFilesConcurrently against that service.
SpecVanished == InitVanished /\ [][NextRepair]_vars

\* --------------------------------------------------- runRepairForInstance alone

InitRun ==
    /\ InitIdle
    /\ \E concurrencyLimit \in 1..MaxLimit :
          config = [i \in Instances |->
                       [SmallInstance EXCEPT
                           !.concurrencyLimit = concurrencyLimit,
                           !.retryAttempts = DefaultRetryAttempts]]
    /\ service = [i \in Instances |-> FullService]
    /\ handlers = <<>>

\* A caller (the one-shot mode, a test) awaits runRepairForInstance.
CallRunRepairForInstance ==
    /\ run[Direct] = IdleRun
    /\ run' = [run EXCEPT ![Direct] = runRepairForInstance("runRepairForInstance")]
    /\ active' = [active EXCEPT ![Direct] = @ + 1]
    /\ UNCHANGED <<envVars, jobs, live, runningJobs, lastLog, lastCall,
                   handlers, process, drain>>

RunStep(i) ==
    \/ ListSettles(i)
    \/ FetchSettles(i)
    \/ BatchSettles(i)
    \/ RepairStep(i)

NextRun ==
    \/ CallRunRepairForInstance
    \/ \E i \in Instances : RunStep(i)

SpecRun == InitRun /\ [][NextRun]_vars

\* ---------------------------------------------------- the scheduler's operations

\* The instances startAll gives a task: the enabled ones whose cron
\* expression validates.
isScheduled(instance) == instance.enabled /\ instance.cronValid

\* The orders config.instances can list the instances in.
Orders == {<<"alpha", "beta">>, <<"beta", "alpha">>}

\* A scheduleInstance that does not validate the cron expression.
scheduleInstanceNoValidate(st, i) ==
    [st EXCEPT !.jobs = @ \cup {i}, !.live[i] = @ + 1]

\* scheduleInstance: an invalid cron expression is logged and the method
\* returns; otherwise the task is created, put in the map and started.
scheduleInstance(st, i) ==
    IF ~config[i].cronValid
    THEN st
    ELSE [st EXCEPT !.jobs = @ \cup {i}, !.live[i] = @ + 1]

\* startAll from the k-th instance of config.instances on.
RECURSIVE startAll(_, _, _)
startAll(st, order, k) ==
    IF k > Len(order)
    THEN [st EXCEPT !.lastLog = Log("All schedulers started successfully", "all")]
    ELSE startAll(IF config[order[k]].enabled
                  THEN scheduleInstance(st, order[k])
                  ELSE st,
                  order, k + 1)

StartAll ==
    /\ process.state = "running"
    /\ \A i \in Instances : live[i] < MaxStartAll
    /\ \E order \in Orders :
          LET st == startAll([jobs |-> jobs, live |-> live, lastLog |-> lastLog],
                             order, 1) IN
             /\ jobs' = st.jobs
             /\ live' = st.live
             /\ lastLog' = st.lastLog
    /\ lastCall' = NoCall
    /\ UNCHANGED <<envVars, run, runningJobs, active, handlers, process, drain>>

\* A stopAll that clears the map and destroys no task.
stopAllClearOnly(st) ==
    [st EXCEPT !.jobs = {},
               !.lastLog = Log("All jobs stopped", "all")]

\* stopAll: every task of the map is destroyed and the map is cleared.
stopAll(st) ==
    [st EXCEPT !.live = [i \in Instances |-> IF i \in st.jobs THEN @[i] - 1 ELSE @[i]],
               !.jobs = {},
               !.lastLog = Log("All jobs stopped", "all")]

StopAll ==
    /\ process.state = "running"
    /\ LET st == stopAll([jobs |-> jobs, live |-> live, lastLog |-> lastLog]) IN
          /\ jobs' = st.jobs
          /\ live' = st.live
          /\ lastLog' = st.lastLog
    /\ lastCall' = NoCall
    /\ UNCHANGED <<envVars, run, runningJobs, active, handlers, process, drain>>

\* An entry whose scheduled flag is read off the configuration.
getStatusFromConfig(i) ==
    [name |-> i,
     enabled |-> config[i].enabled,
     running |-> i \in runningJobs,
     scheduled |-> config[i].enabled]

\* getStatus(): what the scheduler reports of instance i (cronSchedule, a
\* copy of the configured string, is left out).
getStatus(i) ==
    [name |-> i,
     enabled |-> config[i].enabled,
     running |-> i \in runningJobs,
     scheduled |-> i \in jobs]

\* A call of getStatus(): config.instances mapped to the entries, returned
\* to the caller.
GetStatus ==
    /\ process.state = "running"
    /\ \E order \in Orders :
          lastCall' = Settled("getStatus",
                              [k \in 1..Len(order) |-> getStatus(order[k])])
    /\ lastLog' = NoLog
    /\ UNCHANGED <<envVars, run, jobs, live, runningJobs, active, handlers,
                   process, drain>>

\* An executeInstance that throws when the instance is already running.
ExecuteInstanceSkipThrows(i, ctx) ==
    IF alreadyRunning(i, runningJobs)
    THEN /\ lastLog' = Log("already running, skipping this execution", i)
         /\ lastCall' = IF ctx = "runInstanceNow"
                        THEN Settled(i, "rejected: already running")
                        ELSE NoCall
         /\ UNCHANGED <<run, runningJobs, active, jobs, live, handlers,
                        process, drain>>
    ELSE /\ runningJobs' = runningJobs \cup {i}
         /\ run' = [run EXCEPT ![i] = runRepairForInstance(ctx)]
         /\ active' = [active EXCEPT ![i] = @ + 1]
         /\ lastLog' = Log("Starting repair process", i)
         /\ lastCall' = NoCall
         /\ UNCHANGED <<jobs, live, handlers, process, drain>>

\* executeInstance up to its await: a trigger for a running instance is
\* skipped, otherwise the instance is marked and its run is invoked.
ExecuteInstance(i, ctx) ==
    IF alreadyRunning(i, runningJobs)
    THEN /\ lastLog' = Log("already running, skipping this execution", i)
         /\ lastCall' = IF ctx = "runInstanceNow"
                        THEN Settled(i, "resolved")
                        ELSE NoCall
         /\ UNCHANGED <<run, runningJobs, active, jobs, live, handlers,
                        process, drain>>
    ELSE /\ runningJobs' = runningJobs \cup {i}
         /\ run' = [run EXCEPT ![i] = runRepairForInstance(ctx)]
         /\ active' = [active EXCEPT ![i] = @ + 1]
         /\ lastLog' = Log("Starting repair process", i)
         /\ lastCall' = NoCall
         /\ UNCHANGED <<jobs, live, handlers, process, drain>>

\* A cron task of instance i fires.
CronFire(i) ==
    /\ process.state = "running"
    /\ live[i] > 0
    /\ ExecuteInstance(i, "cron")
    /\ UNCHANGED envVars

\* A runInstanceNow without the enabled test.
RunInstanceNowNoEnabledTest(instanceName) ==
    /\ process.state = "running"
    /\ IF instanceName \notin Instances
       THEN /\ lastCall' = Settled(instanceName, "rejected: not found")
            /\ lastLog' = NoLog
            /\ UNCHANGED <<run, runningJobs, active, jobs, live, handlers,
                           process, drain>>
       ELSE ExecuteInstance(instanceName, "runInstanceNow")
    /\ UNCHANGED envVars

\* runInstanceNow(instanceName)
RunInstanceNow(instanceName) ==
    /\ process.state = "running"
    /\ IF instanceName \notin Instances
       THEN /\ lastCall' = Settled(instanceName, "rejected: not found")
            /\ lastLog' = NoLog
            /\ UNCHANGED <<run, runningJobs, active, jobs, live, handlers,
                           process, drain>>
       ELSE IF ~config[instanceName].enabled
            THEN /\ lastCall' = Settled(instanceName, "rejected: disabled")
                 /\ lastLog' = NoLog
                 /\ UNCHANGED <<run, runningJobs, active, jobs, live, handlers,
                                process, drain>>
            ELSE ExecuteInstance(instanceName, "runInstanceNow")
    /\ UNCHANGED envVars

\* ------------------------------------------------------------ shutdown

\* A loop test without the drain window: it waits as long as a job runs.
waitForJobsUnbounded(st, w) ==
    IF st.runningJobs # {}
    THEN [st EXCEPT !.drain = [pc |-> "waiting", waited |-> w],
                    !.lastLog = Log("Waiting for running job(s) to complete", "all")]
    ELSE [st EXCEPT !.drain = [pc |-> "done", waited |-> w],
                    !.process = Exited(0)]

\* The loop test of waitForJobs with `waited` = w: wait one more interval,
\* or exit the process.
waitForJobs(st, w) ==
    IF st.runningJobs # {} /\ w < maxWait
    THEN [st EXCEPT !.drain = [pc |-> "waiting", waited |-> w],
                    !.lastLog = Log("Waiting for running job(s) to complete", "all")]
    ELSE [st EXCEPT !.drain = [pc |-> "done", waited |-> w],
                    !.process = Exited(0),
                    !.lastLog = IF st.runningJobs # {}
                                THEN Log("Force shutting down", "all")
                                ELSE @]

\* A listener that exits right after stopAll, whatever is running.
schedulerShutdownNoWait(st) ==
    [stopAll(st) EXCEPT !.drain = [pc |-> "done", waited |-> 0],
                        !.process = Exited(0)]

\* The scheduler's listener: stopAll, then waitForJobs.
schedulerShutdown(st) == waitForJobs(stopAll(st), 0)

\* The listener of main: process.exit(0).
mainShutdown(st) ==
    [st EXCEPT !.process = Exited(0),
               !.lastLog = Log("shutting down", "all")]

\* The listeners of a signal are called in registration order, from the
\* k-th on; a listener that exits the process ends the dispatch.
RECURSIVE emit(_, _)
emit(st, k) ==
    IF k > Len(st.handlers) \/ st.process.state = "exited"
    THEN st
    ELSE emit(IF st.handlers[k] = "main"
              THEN mainShutdown(st)
              ELSE schedulerShutdown(st), k + 1)

SchedState ==
    [jobs |-> jobs, live |-> live, lastLog |-> lastLog, handlers |-> handlers,
     runningJobs |-> runningJobs, process |-> process, drain |-> drain]

\* SIGINT or SIGTERM arrives (one signal is followed; a second one during
\* the drain would start a second, later waitForJobs loop).
Signal ==
    /\ process.state = "running"
    /\ drain.pc = "none"
    /\ LET st == emit(SchedState, 1) IN
          /\ jobs' = st.jobs
          /\ live' = st.live
          /\ lastLog' = st.lastLog
          /\ process' = st.process
          /\ drain' = st.drain
    /\ lastCall' = NoCall
    /\ UNCHANGED <<envVars, run, runningJobs, active, handlers>>

\* The timer of waitForJobs fires: waited += checkInterval, and the loop test.
DrainPoll ==
    /\ process.state = "running"
    /\ drain.pc = "waiting"
    /\ LET st == waitForJobs([SchedState EXCEPT !.lastLog = NoLog],
                              drain.waited + checkInterval) IN
          /\ lastLog' = st.lastLog
          /\ process' = st.process
          /\ drain' = st.drain
    /\ lastCall' = NoCall
    /\ UNCHANGED <<envVars, run, jobs, live, runningJobs, active, handlers>>

\* ------------------------------------------------- the ZurgScheduler object

\* The service of an instance the scheduler runs against: one bundle, one file.
SmallService == [hashes |-> <<"hA">>, ids |-> <<"1">>]

InstanceConfigs ==
    {[SmallInstance EXCEPT !.enabled = e, !.cronValid = v] :
        e \in BOOLEAN, v \in BOOLEAN}

\* After new ZurgScheduler(): its signal listener is registered.
InitSched ==
    /\ InitIdle
    /\ config \in [Instances -> InstanceConfigs]
    /\ service = [i \in Instances |-> SmallService]
    /\ handlers = <<"scheduler">>

NextSched ==
    \/ StartAll
    \/ StopAll
    \/ \E i \in Instances : CronFire(i)
    \/ \E name \in Names : RunInstanceNow(name)
    \/ \E i \in Instances : RunStep(i)

SpecSched == InitSched /\ [][NextSched]_vars

\* The scheduler with its status report: startAll, stopAll, cron fires, the
\* steps of the runs, and getStatus at any moment.
NextStatus ==
    \/ StartAll
    \/ StopAll
    \/ \E i \in Instances : CronFire(i)
    \/ \E i \in Instances : RunStep(i)
    \/ GetStatus

SpecStatus == InitSched /\ [][NextStatus]_vars

\* ------------------------------------------- triggers of a started scheduler

\* After new ZurgScheduler() and one startAll() with every instance enabled
\* and valid: each instance has its cron task.
InitTrigger ==
    /\ run = [i \in Instances |-> IdleRun]
    /\ jobs = Instances
    /\ live = [i \in Instances |-> 1]
    /\ runningJobs = {}
    /\ active = [i \in Instances |-> 0]
    /\ lastLog = Log("All schedulers started successfully", "all")
    /\ lastCall = NoCall
    /\ oneShot = NoOneShot
    /\ process = Running
    /\ drain = NoDrain
    /\ config = [i \in Instances |-> SmallInstance]
    /\ service = [i \in Instances |-> SmallService]
    /\ handlers = <<"scheduler">>

NextTrigger ==
    \/ \E i \in Instances : CronFire(i)
    \/ \E i \in Instances : RunStep(i)

\* Every service call and every timer of a run returns: a run that waits
\* takes its next step.
SpecTrigger ==
    /\ InitTrigger
    /\ [][NextTrigger]_vars
    /\ \A i \in Instances : WF_vars(RunStep(i))

\* ------------------------------------- the scheduler's own signal listener

\* A scheduler on its own (no listener of main before it), after startAll
\* with every instance scheduled.
InitShutdown ==
    /\ InitIdle
    /\ config = [i \in Instances |-> SmallInstance]
    /\ service = [i \in Instances |-> SmallService]
    /\ handlers = <<"scheduler">>

NextShutdown ==
    \/ StartAll
    \/ \E i \in Instances : CronFire(i)
    \/ \E i \in Instances : RunStep(i)
    \/ Signal
    \/ DrainPoll

SpecShutdown == InitShutdown /\ [][NextShutdown]_vars

\* ---------------------------------- a signal to a started scheduler

\* The scheduler after one startAll, as runSchedulerMode starts it, with its
\* own listener: cron fires and runs go on until a signal arrives, and the
\* one-second timer of waitForJobs fires when it is due.
NextDrain ==
    \/ \E i \in Instances : CronFire(i)
    \/ \E i \in Instances : RunStep(i)
    \/ Signal
    \/ DrainPoll

SpecDrain ==
    /\ InitTrigger
    /\ [][NextDrain]_vars
    /\ WF_vars(DrainPoll)

\* -------------------------------------------------- main in scheduler mode

\* After main has registered its listeners and runSchedulerMode has
\* constructed the scheduler: startAll is the next statement.
InitMain ==
    /\ run = [i \in Instances |-> IdleRun]
    /\ jobs = {}
    /\ live = [i \in Instances |-> 0]
    /\ runningJobs = {}
    /\ active = [i \in Instances |-> 0]
    /\ lastLog = NoLog
    /\ lastCall = NoCall
    /\ oneShot = NoOneShot
    /\ process = [state |-> "starting", code |-> 0]
    /\ drain = NoDrain
    /\ config \in [Instances -> InstanceConfigs]
    /\ service = [i \in Instances |-> SmallService]
    /\ handlers = <<"main", "scheduler">>

\* runSchedulerMode: scheduler.startAll()
MainStartAll ==
    /\ process.state = "starting"
    /\ \E order \in Orders :
          LET st == startAll([jobs |-> jobs, live |-> live, lastLog |-> lastLog],
                             order, 1) IN
             /\ jobs' = st.jobs
             /\ live' = st.live
             /\ lastLog' = st.lastLog
    /\ lastCall' = NoCall
    /\ process' = Running
    /\ UNCHANGED <<envVars, run, runningJobs, active, handlers, drain>>

NextMain ==
    \/ MainStartAll
    \/ \E i \in Instances : CronFire(i)
    \/ \E i \in Instances : RunStep(i)
    \/ Signal

SpecMain == InitMain /\ [][NextMain]_vars

\* ---------------------------------------------------- main in one-shot mode

isEnabled(i) == config[i].enabled

\* config.instances.filter(i => i.enabled)
enabledInstances(order) == SelectSeq(order, isEnabled)

\* main falls off its end: nothing keeps the event loop alive and the
\* process ends with exit code 0.
mainReturns == Exited(0)

\* The catch of runOneTimeExecution's outer try: process.exit(1).
fatalError == Exited(1)

\* The caller calls runRepairForInstance for instance i and awaits it.
oneShotCalls(i, rest) ==
    /\ run' = [run EXCEPT ![i] = runRepairForInstance("runRepairForInstance")]
    /\ active' = [active EXCEPT ![i] = @ + 1]
    /\ oneShot' = [oneShot EXCEPT !.pc = "awaiting", !.current = i, !.todo = rest]
    /\ process' = process

\* The caller is over: the process ends as p.
oneShotEnds(p) ==
    /\ oneShot' = [oneShot EXCEPT !.pc = "done"]
    /\ process' = p
    /\ UNCHANGED <<run, active>>

\* runOneTimeExecution up to its first await.
RunOneTimeExecution ==
    /\ process.state = "running"
    /\ oneShot.pc = "start"
    /\ IF oneShot.RUN_INSTANCE # ""
       THEN IF oneShot.RUN_INSTANCE \notin Instances
            THEN oneShotEnds(Exited(1))
            ELSE IF ~config[oneShot.RUN_INSTANCE].enabled
                 THEN oneShotEnds(Exited(1))
                 ELSE oneShotCalls(oneShot.RUN_INSTANCE, <<>>)
       ELSE LET e == enabledInstances(oneShot.todo) IN
            IF e = <<>>
            THEN oneShotEnds(mainReturns)
            ELSE oneShotCalls(Head(e), Tail(e))
    /\ UNCHANGED <<config, service, jobs, live, runningJobs, lastLog, lastCall,
                   handlers, drain>>

\* The awaited runRepairForInstance has settled: with RUN_INSTANCE an error
\* reaches the outer catch; in the loop over the enabled instances the inner
\* catch logs it and the loop goes on.
OneShotContinues ==
    /\ process.state = "running"
    /\ oneShot.pc = "awaiting"
    /\ run[oneShot.current].pc = "done"
    /\ IF oneShot.RUN_INSTANCE # ""
       THEN oneShotEnds(IF run[oneShot.current].outcome = "threw"
                        THEN fatalError
                        ELSE mainReturns)
       ELSE IF oneShot.todo = <<>>
            THEN oneShotEnds(mainReturns)
            ELSE oneShotCalls(Head(oneShot.todo), Tail(oneShot.todo))
    /\ UNCHANGED <<config, service, jobs, live, runningJobs, lastLog, lastCall,
                   handlers, drain>>

\* SCHEDULER_MODE=false: no scheduler and no signal listener exist; RUN_INSTANCE
\* is unset, an instance's name or an unknown name, and config.instances
\* lists the instances in either order.
InitOneShot ==
    /\ run = [i \in Instances |-> IdleRun]
    /\ jobs = {}
    /\ live = [i \in Instances |-> 0]
    /\ runningJobs = {}
    /\ active = [i \in Instances |-> 0]
    /\ lastLog = NoLog
    /\ lastCall = NoCall
    /\ process = Running
    /\ drain = NoDrain
    /\ handlers = <<>>
    /\ config \in [Instances -> {[SmallInstance EXCEPT !.enabled = e] : e \in BOOLEAN}]
    /\ service = [i \in Instances |-> SmallService]
    /\ \E name \in Names \cup {""}, order \in Orders :
          oneShot = [RUN_INSTANCE |-> name, pc |-> "start", current |-> "none",
                     todo |-> order]

NextOneShot ==
    \/ RunOneTimeExecution
    \/ OneShotContinues
    \/ \E i \in Instances : RunStep(i)

SpecOneShot == InitOneShot /\ [][NextOneShot]_vars

\* ------------------------------------------------------------------ claims

\* Every repairFile call of every run, as <<instance, position>>.
Tasks == UNION {{<<i, p>> : p \in DOMAIN run[i].task} : i \in Instances}

TaskOf(ip) == run[ip[1]].task[ip[2]]

Failed(out) == out \notin {"none", "ok"}

\* C3: when repairFilesConcurrently has returned, `results` holds exactly one
\* result per input target, and the result at index k carries the bundle hash
\* and the file id of target k, with a status of repaired, failed or error.
C3_OneResultPerTargetInOrder ==
    \A i \in Instances :
        (run[i].ctx = "repairFilesConcurrently" /\ run[i].pc = "done") =>
            /\ Len(run[i].results) = Len(run[i].repairs)
            /\ \A k \in DOMAIN run[i].repairs :
                  /\ run[i].results[k].torrentHash = run[i].repairs[k].hash
                  /\ run[i].results[k].fileId = run[i].repairs[k].id
                  /\ run[i].results[k].status \in {"repaired", "failed", "error"}

\* Three targets in chunks of two have been repaired with different outcomes.
C3_Witness ==
    \E i \in Instances :
        /\ run[i].ctx = "repairFilesConcurrently" /\ run[i].pc = "done"
        /\ Len(run[i].repairs) = 3 /\ run[i].concurrencyLimit = 2
        /\ run[i].results[1].status = "failed"
        /\ run[i].results[2].status = "error"
        /\ run[i].results[3].status = "repaired"

\* The repairs that have been started and have not settled.
InFlight(r) ==
    {p \in DOMAIN r.task : r.task[p].pc \notin {"new", "fulfilled", "rejected"}}

\* C4: at most concurrencyLimit repairs are in flight, and a repair that has
\* been started (its delete issued) belongs to a batch all of whose
\* predecessors have settled and have their results recorded.
C4_BatchBarrier ==
    \A i \in Instances :
        LET r == run[i] IN
        /\ Cardinality(InFlight(r)) <= r.concurrencyLimit
        /\ \A p \in DOMAIN r.task :
              r.task[p].nDelete > 0 =>
                  \A q \in 1..(((p - 1) \div r.concurrencyLimit) * r.concurrencyLimit) :
                      /\ settled(r.task[q])
                      /\ q <= Len(r.results)
                      /\ r.results[q] = r.task[q].value

\* More targets than the limit, and a repair of the second batch is in flight.
C4_Witness ==
    \E i \in Instances :
        /\ Len(run[i].repairs) > run[i].concurrencyLimit
        /\ run[i].concurrencyLimit = 2
        /\ \E p \in InFlight(run[i]) : p > run[i].concurrencyLimit

\* C5: a repair whose delete or restore failed has settled with status error
\* and the failure's message, has issued that action once, and has issued no
\* detail fetch; after a failed delete it has issued no restore.
C5_ActionFailureIsError ==
    \A ip \in Tasks :
        LET t == TaskOf(ip) IN
        /\ Failed(t.deleted) =>
              /\ t.pc = "fulfilled" /\ t.value.status = "error"
              /\ t.value.message.cause = t.deleted
              /\ t.nDelete = 1 /\ t.nRestore = 0 /\ t.nDetail = 0
        /\ Failed(t.restored) =>
              /\ t.pc = "fulfilled" /\ t.value.status = "error"
              /\ t.value.message.cause = t.restored
              /\ t.nDelete = 1 /\ t.nRestore = 1 /\ t.nDetail = 0

\* One repair's delete has failed and another's restore has failed.
C5_Witness ==
    \E ip, jq \in Tasks :
        Failed(TaskOf(ip).deleted) /\ Failed(TaskOf(jq).restored)

\* C6: a repair whose detail first showed the file as available at attempt k
\* has settled as repaired, its message says k attempts, and it has issued
\* exactly k detail fetches.
C6_RepairedAtFirstAvailable ==
    \A ip \in Tasks :
        LET t == TaskOf(ip) IN
        t.firstAvailable > 0 =>
            /\ t.firstAvailable <= run[ip[1]].maxRetries
            /\ t.pc = "fulfilled" /\ t.value.status = "repaired"
            /\ t.value.message.attempts = t.firstAvailable
            /\ t.nDetail = t.firstAvailable

\* A file was first seen available at the third attempt.
C6_Witness ==
    \E ip \in Tasks : TaskOf(ip).firstAvailable = 3

\* C7: no repair issues more than maxRetries detail fetches, and a repair
\* that has settled after a successful delete and restore without ever seeing
\* the file available has status failed with a message stating maxRetries.
C7_FailedAfterMaxRetries ==
    \A ip \in Tasks :
        LET t == TaskOf(ip)
            maxRetries == run[ip[1]].maxRetries IN
        /\ t.nDetail <= maxRetries
        /\ (settled(t) /\ t.restored = "ok" /\ t.firstAvailable = 0) =>
              /\ t.value.status = "failed"
              /\ t.value.message.attempts = maxRetries

\* A repair has failed after three attempts.
C7_Witness ==
    \E ip \in Tasks :
        /\ settled(TaskOf(ip)) /\ TaskOf(ip).restored = "ok"
        /\ TaskOf(ip).firstAvailable = 0
        /\ run[ip[1]].maxRetries = 3 /\ TaskOf(ip).nDetail = 3

NothingBroken(r) ==
    \A p \in DOMAIN r.fetched :
        /\ r.fetched[p].st = "fulfilled"
        /\ \A k \in DOMAIN r.fetched[p].files :
              r.fetched[p].files[k].status \in AvailableStatuses

\* C9: once the bundle list is there and the discovery is over, a run whose
\* list is empty or whose bundles show no broken file has returned
\* successfully and has issued no delete and no restore.
C9_NothingBrokenNoAction ==
    \A i \in Instances :
        LET r == run[i] IN
        (/\ r.listed = "ok"
         /\ r.pc # "getDetailedTorrentsConcurrently"
         /\ NothingBroken(r)) =>
            /\ r.pc = "done" /\ r.outcome = "returned"
            /\ \A p \in DOMAIN r.task :
                  r.task[p].nDelete = 0 /\ r.task[p].nRestore = 0

\* Two bundles were fetched, all their files are available, in either case.
C9_Witness ==
    \E i \in Instances :
        LET r == run[i] IN
        /\ r.listed = "ok" /\ r.pc = "done" /\ NothingBroken(r)
        /\ Len(r.allTorrents) = 2
        /\ Len(r.fetched[1].files) = 2
        /\ r.fetched[1].files[1].status = S_Available
        /\ r.fetched[1].files[2].status = S_available

\* ---------------------------------------------------------------- C1

Trigger(i) == CronFire(i) \/ RunInstanceNow(i)

\* C1: at most one run of an instance is in progress at any time; no step
\* starts a run of an instance that is marked running; and a trigger (cron
\* fire or runInstanceNow) for an instance marked running leaves every run
\* and every pending service call as it was and logs the skip.
C1_SchedulingExclusivity ==
    /\ [](\A i \in Instances : active[i] <= 1)
    /\ [][\A i \in Instances :
            /\ i \in runningJobs => active'[i] <= active[i]
            /\ (Trigger(i) /\ i \in runningJobs) =>
                  /\ run' = run
                  /\ active' = active
                  /\ runningJobs' = runningJobs
                  /\ lastLog' = Log("already running, skipping this execution", i)
        ]_vars

\* A trigger was skipped while the instance's run waits for an answer of the
\* service and the other instance runs too.
C1_Witness ==
    \E i \in Instances :
        /\ lastLog = Log("already running, skipping this execution", i)
        /\ i \in runningJobs
        /\ active[i] = 1
        /\ run[i].pc \notin {"idle", "done"}
        /\ \E j \in Instances \ {i} : j \in runningJobs

\* ---------------------------------------------------------------- C2

\* C2: in scheduler mode the process has not exited while a run is active
\* unless the drain window of maxWait milliseconds has elapsed.
C2_ShutdownDrains ==
    process.state = "exited" =>
        \/ runningJobs = {}
        \/ drain.waited >= maxWait

\* ---------------------------------------------------------------- C10

RunEnds(i) ==
    /\ run[i].ctx \in {"cron", "runInstanceNow"}
    /\ run[i].pc # "idle"
    /\ run'[i].pc = "idle"

\* C10: the step that ends a scheduler-invoked run, failed or not, logs the
\* outcome, leaves the process as it is (no exit through an unhandled
\* rejection), keeps every cron task registered and leaves the runs of the
\* other instances alone; the process never exits with code 1, and while it
\* runs a registered cron task can fire.
C10_FailureAbsorbed ==
    /\ [](process.code # 1)
    /\ [](\A j \in Instances :
            (process.state = "running" /\ live[j] > 0) => ENABLED CronFire(j))
    /\ [][\A i \in Instances : RunEnds(i) =>
            /\ lastLog' \in {Log("completed successfully", i), Log("failed", i)}
            /\ process' = process
            /\ jobs' = jobs
            /\ live' = live
            /\ i \notin runningJobs'
            /\ \A j \in Instances \ {i} : run'[j] = run[j]
        ]_vars

\* A run has just failed, the process runs on, the other instance's cron
\* task is registered and that instance is in the middle of a run.
C10_Witness ==
    \E i \in Instances :
        /\ lastLog = Log("failed", i)
        /\ process.state = "running"
        /\ i \in jobs /\ live[i] > 0
        /\ \E j \in Instances \ {i} :
              /\ j \in jobs /\ live[j] > 0
              /\ j \in runningJobs

\* ---------------------------------------------------------------- C11

\* C11: an instance is marked running exactly while a run of it is in
\* progress; a marked instance is eventually unmarked, whether its run
\* returns or throws; and a cron fire for an unmarked instance marks it and
\* starts a run (the bundle list is requested) instead of skipping.
C11_MarkClearedAndRestartable ==
    /\ [](\A i \in Instances : i \in runningJobs <=> run[i].pc # "idle")
    /\ \A i \in Instances : (i \in runningJobs) ~> (i \notin runningJobs)
    /\ [][\A i \in Instances :
            (CronFire(i) /\ i \notin runningJobs) =>
                /\ i \in runningJobs'
                /\ active'[i] = active[i] + 1
                /\ run'[i].pc = "getTorrentList"
                /\ lastLog' = Log("Starting repair process", i)
        ]_vars

\* The run of an instance has just failed, its mark is cleared and its cron
\* task can fire again.
C11_Witness ==
    \E i \in Instances :
        /\ lastLog = Log("failed", i)
        /\ i \notin runningJobs
        /\ run[i].pc = "idle"
        /\ live[i] > 0
        /\ ENABLED CronFire(i)

\* ---------------------------------------------------------------- C12

Polls == drain.waited \div checkInterval

\* C13: a drain that waits always ends with the exit of the process; each
\* poll comes one checkInterval after the last, the process exits at the
\* first loop test that finds no running job (at the signal or at a poll)
\* and at the poll that completes maxWait, so after at most 30 polls.
C13_DrainEnds ==
    /\ (drain.pc = "waiting") ~> (process.state = "exited")
    /\ [](/\ drain.waited <= maxWait
          /\ Polls * checkInterval = drain.waited
          /\ Polls <= 30
          /\ drain.pc = "waiting" => process.state = "running"
          /\ drain.pc = "done" => process = Exited(0))
    /\ [][drain' # drain =>
            /\ drain.pc = "waiting" => drain'.waited = drain.waited + checkInterval
            /\ drain.pc = "none" => drain'.waited = 0
            /\ (runningJobs = {} \/ drain'.waited >= maxWait)
                  => process'.state = "exited"
            /\ (runningJobs # {} /\ drain'.waited < maxWait)
                  => drain'.pc = "waiting"
        ]_vars

\* The process was ended by the poll that completed the drain window, with a
\* run still in progress.
C13_Witness ==
    /\ process.state = "exited"
    /\ drain.pc = "done"
    /\ drain.waited = maxWait
    /\ runningJobs # {}
    /\ lastLog = Log("Force shutting down", "all")

\* ---------------------------------------------------------------- C14

C15_DisabledStaysUnscheduled ==
    /\ [](\A i \in Instances : ~config[i].enabled =>
            /\ i \notin jobs /\ live[i] = 0
            /\ ~getStatus(i).scheduled /\ ~getStatus(i).running
            /\ active[i] = 0 /\ run[i].pc = "idle")
    /\ [][\A name \in Names :
            (RunInstanceNow(name) /\ (name \notin Instances \/ ~config[name].enabled)) =>
                /\ lastCall' = Settled(name, IF name \in Instances
                                             THEN "rejected: disabled"
                                             ELSE "rejected: not found")
                /\ jobs' = jobs /\ live' = live
                /\ runningJobs' = runningJobs /\ active' = active
                /\ run' = run /\ process' = process
        ]_vars

\* runInstanceNow on a disabled instance has just been rejected, after a
\* startAll, while the other instance is in a run.
C15_Witness ==
    \E i \in Instances :
        /\ ~config[i].enabled
        /\ lastCall = Settled(i, "rejected: disabled")
        /\ \E j \in Instances \ {i} : j \in jobs /\ j \in runningJobs

\* ---------------------------------------------------------------- C16

FailedOrError(r) ==
    /\ r.pc = "done"
    /\ \E k \in DOMAIN r.results : r.results[k].status \in {"failed", "error"}

\* C16: in one-shot mode, with RUN_INSTANCE or without, the process that has
\* ended after an instance run with a failed or error result has ended with
\* a non-zero exit code.
C16_OneShotFailureExitsNonZero ==
    (oneShot.pc = "done" /\ process.state = "exited") =>
        ((\E i \in Instances : FailedOrError(run[i])) => process.code # 0)

\* The same with RUN_INSTANCE set.
C16_WithRunInstance ==
    (oneShot.pc = "done" /\ process.state = "exited" /\ oneShot.RUN_INSTANCE # "") =>
        ((\E i \in Instances : FailedOrError(run[i])) => process.code # 0)

\* ---------------------------------------------------------------- C17

\* C17: a run whose bundle-list fetch failed has thrown and has issued no
\* detail fetch and started no repair (so no delete and no restore); it is
\* never taken up again; and the step in which the fetch fails changes the
\* run of no other instance.
C17_ListFailureAbortsRun ==
    /\ [](\A i \in Instances : run[i].listed = "failed" =>
            /\ run[i].pc = "done" /\ run[i].outcome = "threw"
            /\ run[i].fetched = <<>> /\ run[i].allDetailedTorrents = <<>>
            /\ run[i].task = <<>> /\ run[i].results = <<>>
            /\ active[i] = 0)
    /\ [][\A i \in Instances :
            /\ run[i].listed = "failed" => run'[i] = run[i] /\ active'[i] = 0
            /\ (run[i].pc = "getTorrentList" /\ run'[i].listed = "failed") =>
                  \A j \in Instances \ {i} :
                      run'[j] = run[j] /\ active'[j] = active[j]
        ]_vars

\* The list fetch of one instance has failed, and the loop over the enabled
\* instances has gone on to the other instance, whose run is at a repair.
C17_Witness ==
    \E i \in Instances :
        /\ run[i].listed = "failed"
        /\ oneShot.RUN_INSTANCE = ""
        /\ \E j \in Instances \ {i} :
              /\ run[j].listed = "ok"
              /\ run[j].pc = "repairFilesConcurrently"
              /\ \E p \in DOMAIN run[j].task : run[j].task[p].nDelete = 1

\* ---------------------------------------------------------------- C18

DiscoveryOver(r) ==
    /\ r.listed = "ok" /\ Len(r.allTorrents) > 0
    /\ r.pc \in {"repairFilesConcurrently", "done"}

\* The files of the fetched bundles that do not read "available", as
\* <<bundle position, file position>>.
BrokenSeen(r) ==
    {<<p, k>> \in (DOMAIN r.fetched) \X (1..Len(FileIds)) :
        /\ r.fetched[p].st = "fulfilled"
        /\ k \in DOMAIN r.fetched[p].files
        /\ r.fetched[p].files[k].status \notin AvailableStatuses}

\* C18: when the discovery of a run is over, every listed bundle has been
\* fetched, whatever fetches failed; a bundle whose fetch failed is recorded
\* once, with no files; every broken file of every fetched bundle is a
\* repair target, and nothing else is; and when the run has ended, every
\* target has been through its repair (one delete) and has its result.
C18_DetailFailureDoesNotAbort ==
    \A i \in Instances :
        LET r == run[i] IN
        DiscoveryOver(r) =>
            /\ \A p \in DOMAIN r.fetched : r.fetched[p].st \in {"fulfilled", "rejected"}
            /\ \A p \in DOMAIN r.fetched : r.fetched[p].st = "rejected" =>
                  Cardinality({n \in DOMAIN r.allDetailedTorrents :
                                  r.allDetailedTorrents[n].hash = r.allTorrents[p]}) = 1
                  /\ \A n \in DOMAIN r.allDetailedTorrents :
                        r.allDetailedTorrents[n].hash = r.allTorrents[p] =>
                            r.allDetailedTorrents[n].files = <<>>
            /\ Len(r.repairs) = Cardinality(BrokenSeen(r))
            /\ \A pk \in BrokenSeen(r) :
                  \E q \in DOMAIN r.repairs :
                      /\ r.repairs[q].hash = r.allTorrents[pk[1]]
                      /\ r.repairs[q].id = r.fetched[pk[1]].files[pk[2]].id
            /\ (r.pc = "done" /\ Len(r.repairs) > 0) =>
                  /\ Len(r.results) = Len(r.repairs)
                  /\ \A q \in DOMAIN r.repairs : r.task[q].nDelete = 1

\* With one bundle per batch, the fetch of the first bundle failed, the
\* second bundle's broken file was found in the next batch and is repaired.
C18_Witness ==
    \E i \in Instances :
        LET r == run[i] IN
        /\ r.pc = "done" /\ r.concurrencyLimit = 1
        /\ Len(r.allTorrents) = 2
        /\ r.fetched[1].st = "rejected" /\ r.fetched[2].st = "fulfilled"
        /\ Len(r.repairs) = 1 /\ r.repairs[1].hash = r.allTorrents[2]
        /\ r.results[1].status = "repaired"

\* ---------------------------------------------------------------- C19

\* The discovery fetch of bundle p of run r was rejected and the batch of p
\* is over.
RejectedAndBatchOver(r, p) ==
    /\ r.fetched[p].st = "rejected"
    /\ \/ r.pc # "getDetailedTorrentsConcurrently"
       \/ p \notin batch(r)

\* C19 as stated: a run with a rejected discovery fetch is aborted, that
\* is, it has thrown once the batch of that fetch is over, without starting
\* a repair.
C19_DetailErrorAbortsRun ==
    \A i \in Instances : \A p \in DOMAIN run[i].fetched :
        RejectedAndBatchOver(run[i], p) =>
            /\ run[i].pc = "done" /\ run[i].outcome = "threw"
            /\ run[i].task = <<>>

\* C19 amended: a rejected discovery fetch does not propagate.  The run goes
\* through every listed bundle, and when it has ended it has thrown exactly
\* when a repair result is failed or error and has returned otherwise; so a
\* run none of whose fetched bundles shows a broken file returns.
C19_DetailErrorAbsorbed ==
    \A i \in Instances :
        LET r == run[i] IN
        (r.pc = "done" /\ \E p \in DOMAIN r.fetched : r.fetched[p].st = "rejected") =>
            /\ \A p \in DOMAIN r.fetched : r.fetched[p].st \in {"fulfilled", "rejected"}
            /\ r.outcome =
                  IF \E k \in DOMAIN r.results : r.results[k].status \in {"failed", "error"}
                  THEN "threw"
                  ELSE "returned"
            /\ Len(r.repairs) = 0 => r.outcome = "returned"

\* Both detail fetches of a run failed, in one batch, and the run returned
\* without a repair.
C19_Witness ==
    \E i \in Instances :
        LET r == run[i] IN
        /\ r.pc = "done" /\ r.outcome = "returned"
        /\ Len(r.allTorrents) = 2 /\ r.concurrencyLimit = 2
        /\ r.fetched[1].st = "rejected" /\ r.fetched[2].st = "rejected"
        /\ r.task = <<>>

\* ---------------------------------------------------------------- C20

\* C20: whatever startAll and stopAll calls were made, an instance has at
\* most one live cron task, it has one exactly when the job map has its
\* entry, and so an empty map means that no cron task can fire.
C20_OneLiveTriggerTracked ==
    /\ \A i \in Instances :
          /\ live[i] <= 1
          /\ live[i] = 1 <=> i \in jobs
    /\ jobs = {} => \A i \in Instances : ~ENABLED CronFire(i)

\* ---------------------------------------------------------------- C21

\* C21: repairFilesConcurrently never throws, and when it has returned,
\* every target has had its own delete, a restore if its delete succeeded
\* and a verification if its restore succeeded; its result is error exactly
\* when its own delete or restore failed, and repaired or failed otherwise,
\* whatever happened to the other targets.
C21_ErrorStaysWithItsTarget ==
    \A i \in Instances :
        LET r == run[i] IN
        r.ctx = "repairFilesConcurrently" =>
            /\ r.outcome # "threw"
            /\ r.pc = "done" =>
                  /\ r.outcome = "results"
                  /\ Len(r.results) = Len(r.repairs)
                  /\ \A p \in DOMAIN r.repairs :
                        LET t == r.task[p] IN
                        /\ t.nDelete = 1
                        /\ t.nRestore = IF t.deleted = "ok" THEN 1 ELSE 0
                        /\ r.results[p].status = "error"
                              <=> (Failed(t.deleted) \/ Failed(t.restored))
                        /\ t.restored = "ok" =>
                              /\ t.nDetail >= 1
                              /\ r.results[p].status \in {"repaired", "failed"}

\* Three targets in batches of two: the delete of the first failed, the
\* second (same batch) and the third (next batch) were restored, verified
\* and repaired.
C21_Witness ==
    \E i \in Instances :
        LET r == run[i] IN
        /\ r.ctx = "repairFilesConcurrently" /\ r.pc = "done"
        /\ Len(r.repairs) = 3 /\ r.concurrencyLimit = 2
        /\ Failed(r.task[1].deleted) /\ r.results[1].status = "error"
        /\ r.task[2].restored = "ok" /\ r.results[2].status = "repaired"
        /\ r.task[3].restored = "ok" /\ r.results[3].status = "repaired"

\* ---------------------------------------------------------------- C22

\* The state of an instance in the scheduler: whether the job map holds a
\* trigger for it and whether its running mark is set.  An instance without
\* trigger and mark is Unscheduled before the first stopAll and Stopped after
\* it; the scheduler keeps nothing that tells the two apart.
InstanceState(i) ==
    IF i \in runningJobs
    THEN IF i \in jobs THEN "Running" ELSE "RunningNoTrigger"
    ELSE IF i \in jobs THEN "Scheduled" ELSE "NoTrigger"

\* The states of the claim: a run is a run, with or without a trigger.
ClaimState(i) ==
    IF i \in runningJobs THEN "Running"
    ELSE IF i \in jobs THEN "Scheduled" ELSE "UnscheduledOrStopped"

ListedTransitions ==
    {<<"UnscheduledOrStopped", "Scheduled">>, <<"Scheduled", "Running">>,
     <<"Running", "Scheduled">>, <<"Scheduled", "UnscheduledOrStopped">>}

\* C22 as stated: an instance's state changes only along Unscheduled to
\* Scheduled, Scheduled to Running, Running to Scheduled and Scheduled to
\* Stopped.
C22_OnlyListedTransitions ==
    [][\A i \in Instances :
          ClaimState(i)' # ClaimState(i)
              => <<ClaimState(i), ClaimState(i)'>> \in ListedTransitions]_vars

CodeTransitions ==
    {<<"NoTrigger", "Scheduled">>, <<"Scheduled", "Running">>,
     <<"Running", "Scheduled">>, <<"Scheduled", "NoTrigger">>,
     <<"NoTrigger", "RunningNoTrigger">>, <<"RunningNoTrigger", "NoTrigger">>,
     <<"Running", "RunningNoTrigger">>, <<"RunningNoTrigger", "Running">>}

\* C22 (amended): an instance's state changes only along the four listed
\* transitions and four more: a run starts for an instance without trigger
\* and ends back there, and stopAll or startAll during a run removes or
\* registers the trigger without ending the run.  The trigger is registered by
\* startAll and removed by stopAll only; the mark is set by a trigger of the
\* instance and cleared by a step of its run only.
C22_TransitionsOfTheScheduler ==
    [][\A i \in Instances :
          /\ InstanceState(i)' # InstanceState(i)
                => <<InstanceState(i), InstanceState(i)'>> \in CodeTransitions
          /\ (i \notin jobs /\ i \in jobs') => StartAll
          /\ (i \in jobs /\ i \notin jobs') => StopAll
          /\ (i \notin runningJobs /\ i \in runningJobs')
                => (CronFire(i) \/ RunInstanceNow(i))
          /\ (i \in runningJobs /\ i \notin runningJobs') => RunStep(i)]_vars

\* runInstanceNow has started a run of an instance that has no trigger.
C22_Witness ==
    \E i \in Instances :
        /\ InstanceState(i) = "RunningNoTrigger"
        /\ run[i].ctx = "runInstanceNow"
        /\ run[i].pc = "repairFilesConcurrently"

\* ---------------------------------------------------------------- C23

\* C23: a trigger (cron fire, or runInstanceNow of an enabled instance) for
\* an instance b that is not running starts b's run in that very step,
\* whichever other instances are running, and leaves their runs and marks
\* as they are.
C23_TriggersIndependent ==
    [][\A b \in Instances :
          (/\ b \notin runningJobs
           /\ CronFire(b) \/ (config[b].enabled /\ RunInstanceNow(b)))
          => /\ runningJobs' = runningJobs \cup {b}
             /\ run'[b].pc = "getTorrentList"
             /\ lastLog' = Log("Starting repair process", b)
             /\ \A a \in Instances \ {b} : run'[a] = run[a]]_vars

\* The run of beta has just been started while the run of alpha is repairing:
\* both are in progress.
C23_Witness ==
    /\ runningJobs = {"alpha", "beta"}
    /\ run["alpha"].pc = "repairFilesConcurrently"
    /\ run["beta"].pc = "getTorrentList"
    /\ lastLog = Log("Starting repair process", "beta")

\* ---------------------------------------------------------------- C24

C25_StatusReadsAndChangesNothing ==
    [][GetStatus =>
          /\ jobs' = jobs /\ live' = live
          /\ runningJobs' = runningJobs /\ run' = run
          /\ LET out == lastCall'.result IN
                /\ Len(out) = Cardinality(Instances)
                /\ {out[k].name : k \in DOMAIN out} = Instances
                /\ \A k \in DOMAIN out :
                      /\ out[k].running <=> (out[k].name \in runningJobs)
                      /\ out[k].scheduled <=> (out[k].name \in jobs)
                      /\ out[k].enabled <=> config[out[k].name].enabled]_vars

\* getStatus has reported a running instance, and an enabled instance that
\* has no trigger.
C25_Witness ==
    /\ lastCall.name = "getStatus"
    /\ \E k \in DOMAIN lastCall.result : lastCall.result[k].running
    /\ \E k \in DOMAIN lastCall.result :
          lastCall.result[k].enabled /\ ~lastCall.result[k].scheduled
    /\ jobs # {}

\* ---------------------------------------------------------------- C26

\* C26: the detail fetch of an attempt after the first is issued only when a
\* retry-delay wait that followed the previous attempt has elapsed, whatever
\* that attempt's outcome, and no such wait follows the last attempt.
C26_WaitBetweenAttempts ==
    [][\A i \in Instances :
          \A p \in (DOMAIN run[i].task) \cap (DOMAIN run'[i].task) :
              LET t == run[i].task[p]
                  u == run'[i].task[p] IN
              /\ (t.nDetail >= 1 /\ u.nDetail = t.nDetail + 1)
                    => t.pc = "retryDelay"
              /\ u.pc = "retryDelay" => u.attempt < run'[i].maxRetries]_vars

\* ---------------------------------------------------------------- C27

\* C27: the step in which a restore succeeds starts a retry-delay wait and
\* issues no detail fetch, and the first detail fetch of a repair is issued
\* by the step in which that wait elapses.
C27_WaitBeforeFirstFetch ==
    [][\A i \in Instances :
          \A p \in (DOMAIN run[i].task) \cap (DOMAIN run'[i].task) :
              LET t == run[i].task[p]
                  u == run'[i].task[p] IN
              /\ (t.pc = "restoreFile" /\ u.restored = "ok")
                    => (u.pc = "delay" /\ u.nDetail = 0)
              /\ (t.nDetail = 0 /\ u.nDetail > 0)
                    => (t.pc = "delay" /\ t.restored = "ok" /\ u.nDetail = 1)]_vars

\* The wait after a successful restore has elapsed and the first detail
\* fetch is in flight.
C27_Witness ==
    \E ip \in Tasks :
        /\ TaskOf(ip).restored = "ok"
        /\ TaskOf(ip).pc = "getDetailedTorrent"
        /\ TaskOf(ip).attempt = 1 /\ TaskOf(ip).nDetail = 1

\* ---------------------------------------------------------------- C28

\* The file of target k of run i is on no detail page of the service: each
\* verification fetch for it fails or returns a detail without the file id.
Vanished(i, k) ==
    \A j \in DOMAIN service[i].ids : service[i].ids[j] # run[i].repairs[k].id

\* C28: a repair of a vanished file whose restore succeeded never ends with
\* status error; each of its verification fetches is one attempt, and when
\* it has settled it has made maxRetries fetches and its status is failed.
C28_InconclusiveIsNotError ==
    \A ip \in Tasks :
        LET t == TaskOf(ip)
            maxRetries == run[ip[1]].maxRetries IN
        (Vanished(ip[1], ip[2]) /\ t.restored = "ok") =>
            /\ t.value.status # "error"
            /\ t.pc = "getDetailedTorrent" => t.nDetail = t.attempt
            /\ settled(t) =>
                  /\ t.value.status = "failed"
                  /\ t.nDetail = maxRetries

\* Three attempts for a vanished file: the repair has ended with status
\* failed.
C28_Witness ==
    \E ip \in Tasks :
        /\ Vanished(ip[1], ip[2])
        /\ settled(TaskOf(ip)) /\ TaskOf(ip).restored = "ok"
        /\ TaskOf(ip).nDetail = 3
        /\ TaskOf(ip).value.status = "failed"

\* ---------------------------------------------------------------- C29

\* C29: an instance is in runningJobs exactly when one run that the
\* scheduler started for it (from a cron fire or runInstanceNow) is in
\* progress; the step that sets the mark is the step that finds the instance
\* unmarked and invokes the run, and the step that clears it is the step in
\* which that run ends, returned or thrown.
C29_MarkIffRunInProgress ==
    /\ [](\A i \in Instances :
            i \in runningJobs <=>
                /\ active[i] = 1
                /\ run[i].ctx \in {"cron", "runInstanceNow"}
                /\ run[i].pc \notin {"idle", "done"})
    /\ [][\A i \in Instances :
            /\ (i \notin runningJobs /\ i \in runningJobs')
                  => /\ run[i].pc = "idle" /\ active[i] = 0
                     /\ run'[i].pc = "getTorrentList"
                     /\ Trigger(i)
            /\ (i \in runningJobs /\ i \notin runningJobs')
                  => /\ run'[i].pc = "idle" /\ active'[i] = 0
                     /\ lastLog' \in {Log("completed successfully", i),
                                       Log("failed", i)}
                     /\ RunStep(i)
        ]_vars

\* The run of one instance has just failed and its mark is cleared, while
\* the other instance, started by its cron task, is marked and repairing.
C29_Witness ==
    \E i \in Instances :
        /\ lastLog = Log("failed", i)
        /\ i \notin runningJobs
        /\ \E j \in Instances \ {i} :
              /\ j \in runningJobs
              /\ run[j].ctx = "cron"
              /\ run[j].pc = "repairFilesConcurrently"

\* ---------------------------------------------------------------- C30

\* The discovery fetch of run r showed the file `id` of bundle `hash` with a
\* status in the set sts.
ShownAs(r, hash, id, sts) ==
    \E p \in DOMAIN r.fetched :
        /\ r.allTorrents[p] = hash
        /\ r.fetched[p].st = "fulfilled"
        /\ \E k \in DOMAIN r.fetched[p].files :
              /\ r.fetched[p].files[k].id = id
              /\ r.fetched[p].files[k].status \in sts

\* C30: a repair of a run that has issued its delete (and so any restore) is
\* for a bundle and file that the run's discovery fetch showed with a status
\* other than "available" in any case, and not as available.
C30_OnlyBrokenFilesAreDeleted ==
    \A i \in Instances :
        LET r == run[i] IN
        r.listed = "ok" =>
            \A p \in DOMAIN r.task :
                (r.task[p].nDelete > 0 \/ r.task[p].nRestore > 0) =>
                    /\ ShownAs(r, r.repairs[p].hash, r.repairs[p].id,
                               StatusValues \ AvailableStatuses)
                    /\ ~ShownAs(r, r.repairs[p].hash, r.repairs[p].id,
                                AvailableStatuses)

\* A bundle whose first file reads "Available" and whose second is broken:
\* the run has ended with one delete and one restore, both for the second.
C30_Witness ==
    \E i \in Instances :
        LET r == run[i] IN
        /\ r.listed = "ok" /\ r.pc = "done"
        /\ ShownAs(r, "hA", "1", {S_Available})
        /\ ShownAs(r, "hA", "2", {S_Broken})
        /\ \E p \in DOMAIN r.task :
              /\ r.repairs[p].hash = "hA" /\ r.repairs[p].id = "2"
              /\ r.task[p].nDelete = 1 /\ r.task[p].nRestore = 1
        /\ \A p \in DOMAIN r.task : r.repairs[p].id # "1"

\* ---------------------------------------------------------------- C31

\* C31: a repair issues at most one delete and at most one restore; its
\* restore is issued by the step in which its delete succeeds, and it has
\* issued a verification fetch only if its restore has succeeded.
C31_DeleteRestoreVerifyInOrder ==
    /\ [](\A ip \in Tasks :
            LET t == TaskOf(ip) IN
            /\ t.nDelete <= 1 /\ t.nRestore <= 1
            /\ t.nRestore > 0 => (t.nDelete = 1 /\ t.deleted = "ok")
            /\ t.nDetail > 0 => (t.nRestore = 1 /\ t.restored = "ok"))
    /\ [][\A i \in Instances :
            \A p \in (DOMAIN run[i].task) \cap (DOMAIN run'[i].task) :
                LET t == run[i].task[p]
                    u == run'[i].task[p] IN
                /\ u.nDelete > t.nDelete => (t.pc = "new" /\ u.pc = "deleteFile")
                /\ u.nRestore > t.nRestore
                      => (t.pc = "deleteFile" /\ u.deleted = "ok"
                          /\ u.pc = "restoreFile")
        ]_vars

\* A repair with one delete, one restore and, after the restore succeeded,
\* two verification fetches.
C31_Witness ==
    \E ip \in Tasks :
        /\ TaskOf(ip).nDelete = 1 /\ TaskOf(ip).nRestore = 1
        /\ TaskOf(ip).deleted = "ok" /\ TaskOf(ip).restored = "ok"
        /\ TaskOf(ip).nDetail = 2

\* ---------------------------------------------------------------- C32

\* C32: no repairFile promise is rejected, and one that has settled holds a
\* result with status repaired, failed or error; and a call of
\* repairFilesConcurrently that is in progress eventually returns.
C32_RepairSettlesAndTerminates ==
    /\ [](\A ip \in Tasks :
            LET t == TaskOf(ip) IN
            /\ t.pc # "rejected"
            /\ settled(t) => t.value.status \in {"repaired", "failed", "error"})
    /\ (run[Direct].pc = "repairFilesConcurrently") ~> (run[Direct].pc = "done")

\* A call with three targets in batches of two has returned, with one
\* repair ended as error, one as failed and one as repaired.
C32_Witness ==
    LET r == run[Direct] IN
    /\ r.ctx = "repairFilesConcurrently" /\ r.pc = "done"
    /\ Len(r.repairs) = 3 /\ r.concurrencyLimit = 2
    /\ \A p \in 1..3 : r.task[p].pc = "fulfilled"
    /\ {r.task[p].value.status : p \in 1..3} = {"repaired", "failed", "error"}

\* ---------------------------------------------------------------- C33

\* C33: runInstanceNow for an enabled instance that is running resolves in
\* that step and starts no run; and every runInstanceNow call for an enabled
\* instance settles as resolved, skipped or run to its end, so the caller
\* gets the same answer in both cases.
C33_SkippedRequestResolves ==
    /\ [](\A i \in Instances :
            (lastCall.name = i /\ config[i].enabled)
                => lastCall = Settled(i, "resolved"))
    /\ [][\A i \in Instances :
            (RunInstanceNow(i) /\ config[i].enabled /\ i \in runningJobs) =>
                /\ lastCall' = Settled(i, "resolved")
                /\ run' = run
                /\ active' = active
                /\ runningJobs' = runningJobs
        ]_vars

\* runInstanceNow has resolved for an instance that its cron task had
\* started and that is still running.
C33_Witness ==
    \E i \in Instances :
        /\ lastCall = Settled(i, "resolved")
        /\ lastLog = Log("already running, skipping this execution", i)
        /\ i \in runningJobs
        /\ run[i].ctx = "cron"
        /\ run[i].pc = "repairFilesConcurrently"
        /\ active[i] = 1

\* ---------------------------------------------------------------- C34

\* Every discovery fetch of run r has failed.
AllFetchesFailed(r) ==
    /\ Len(r.allTorrents) > 0
    /\ \A p \in DOMAIN r.fetched : r.fetched[p].st = "rejected"

\* C34: no repair target of a run, and so no delete and no restore, is for a
\* bundle whose discovery fetch failed; a run that has thrown after its list
\* arrived has a failed or error repair result; and a run all of whose
\* discovery fetches failed has returned successfully with no target.
C34_FailedFetchGivesNoTarget ==
    \A i \in Instances :
        LET r == run[i] IN
        r.listed = "ok" =>
            /\ \A p \in DOMAIN r.fetched :
                  r.fetched[p].st = "rejected" =>
                      \A q \in DOMAIN r.repairs :
                          r.repairs[q].hash # r.allTorrents[p]
            /\ (r.pc = "done" /\ r.outcome = "threw") =>
                  \E k \in DOMAIN r.results :
                      r.results[k].status \in {"failed", "error"}
            /\ (AllFetchesFailed(r) /\ r.pc # "getDetailedTorrentsConcurrently") =>
                  /\ r.pc = "done" /\ r.outcome = "returned"
                  /\ r.repairs = <<>> /\ r.task = <<>>

\* Two bundles were listed and both detail fetches failed: the run has
\* returned without a repair.
C34_Witness ==
    \E i \in Instances :
        LET r == run[i] IN
        /\ r.listed = "ok" /\ Len(r.allTorrents) = 2
        /\ AllFetchesFailed(r)
        /\ r.pc = "done" /\ r.outcome = "returned"
        /\ r.task = <<>>

====
